---- MODULE Spec2Model ----
(***************************************************************************)
(* Model of server.js: an Express proxy in front of the GitHub API.        *)
(* One action is one turn of the Node event loop: a route handler, or the  *)
(* callback of an upstream request together with the promise reactions     *)
(* (microtasks) it triggers.                                               *)
(*                                                                         *)
(* A JavaScript object is a sequence of <<key, value>> pairs with unique   *)
(* keys, in insertion order.  An HTTP body is a record                     *)
(* [json, text, value]: text is the raw text of a body that is not JSON,   *)
(* value is what JSON.parse yields for a body that is.                     *)
(***************************************************************************)
EXTENDS Integers, Sequences, FiniteSets, TLC

\* ------------------------------------------------------------------ bounds
MaxReqs == 1
MaxRepos == 2
MaxMaps == 3
MaxCalls == 3
MaxAggReqs == 2

Reqs == 1..MaxReqs
\* the concurrent /languages requests of AggSpec
AggReqs == 1..MaxAggReqs
AllReqs == Reqs \cup AggReqs

\* --------------------------------------------------------------- constants
HOST == "https://api.github.com/"
OWNER == "altany"
DefaultCode == 500
DefaultContentType == "text/plain"
OK == 200
NotFound == 404

VARIABLES
  options,    \* the module-level options object: its url field
  route,      \* route[r]: the route request r was dispatched to, "" before it arrives
  res,        \* res[r]: the response object of request r
  listing,    \* listing[r]: the promise returned by getRepos(res)
  fetches,    \* fetches[r]: the getRepoLanguages calls of r, in the order issued
  join,       \* join[r]: the Promise.all over fetches[r]
  direct,     \* direct[r]: the call /readme/:repo or /last-commit/:repo made itself
  swallowed,  \* swallowed[r]: what the .catch((error) => error) handlers of r received
  log,        \* log[r]: the upstream completions of r's calls, in handling order
  uncaught,   \* the exception that escaped a request callback ("" while the process runs)
  calls,      \* the upstream calls issued, each with the url it was sent to
  objects,    \* arguments of a direct sumObjectsByKeys call
  arrival,    \* the same arguments in another order
  totals,     \* result for objects
  totalsP,    \* result for arrival
  mpc         \* position of the direct call

vars == <<options, route, res, listing, fetches, join, direct, swallowed, log, uncaught,
          calls, objects, arrival, totals, totalsP, mpc>>
serverVars ==
  <<options, route, res, listing, fetches, join, direct, swallowed, log, uncaught, calls>>
mergeVars == <<objects, arrival, totals, totalsP, mpc>>

\* ------------------------------------------------------------ JS objects
HasOwn(object, property) == \E i \in 1..Len(object) : object[i][1] = property

Get(object, property) ==
  object[CHOOSE i \in 1..Len(object) : object[i][1] = property][2]

Keys(object) == {object[i][1] : i \in 1..Len(object)}

\* object[property] = value
SetProp(object, property, value) ==
  IF HasOwn(object, property)
  THEN [i \in 1..Len(object) |->
          IF object[i][1] = property THEN <<property, value>> ELSE object[i]]
  ELSE Append(object, <<property, value>>)

\* mutant: the accumulator is not read, the last map wins
OrZeroLost(object1, property) == 0

\* (object1[property] || 0)
OrZero(object1, property) ==
  IF HasOwn(object1, property) /\ Get(object1, property) # 0
  THEN Get(object1, property)
  ELSE 0

\* the for..in loop over object2, from its j-th property on
RECURSIVE ForIn(_, _, _)
ForIn(object1, object2, j) ==
  IF j > Len(object2)
  THEN object1
  ELSE LET property == object2[j][1]
       IN ForIn(SetProp(object1, property, OrZero(object1, property) + object2[j][2]),
                object2, j + 1)

\* objects.reduce(..., {}) from the k-th argument on
RECURSIVE Reduce(_, _, _)
Reduce(objs, k, object1) ==
  IF k > Len(objs) THEN object1 ELSE Reduce(objs, k + 1, ForIn(object1, objs[k], 1))

\* mutant: the accumulator is one module-level object, which still holds the totals
\* of the request answered before
sumObjectsByKeysShared(objs) ==
  LET answered == {r \in AllReqs : res[r].sentRecords # <<>>}
      last == CHOOSE r \in answered : \A q \in answered : q <= r
  IN Reduce(objs, 1,
            IF answered = {} THEN <<>>
            ELSE [k \in 1..Len(res[last].sentRecords) |->
                    <<res[last].sentRecords[k].language, res[last].sentRecords[k].value>>])

sumObjectsByKeys(objs) == Reduce(objs, 1, <<>>)

\* Object.entries(languageData).map(([key, value]) => ({language: key, value}))
ToRecords(languageData) ==
  [i \in 1..Len(languageData) |->
     [language |-> languageData[i][1], value |-> languageData[i][2]]]

\* ------------------------------------------------------------ HTTP bodies
NoBody == [json |-> FALSE, text |-> "", value |-> <<>>]
JsonBody(v) == [json |-> TRUE, text |-> "", value |-> v]
TextBody(t) == [json |-> FALSE, text |-> t, value |-> <<>>]

\* JSON.parse(body): the value, or a SyntaxError
JSON_parse(body) ==
  IF body.json THEN [threw |-> "", value |-> body.value]
  ELSE [threw |-> "SyntaxError", value |-> <<>>]

\* ------------------------------------------------------- response object
\* an http.ServerResponse: the statusCode property and Content-Type header as
\* set so far, and, once ended, what went out to the client
NewResponse ==
  [statusCode |-> OK, contentType |-> "", finished |-> FALSE,
   sentStatus |-> 0, sentType |-> "", sentText |-> "",
   sentBody |-> NoBody, sentRecords |-> <<>>]

\* message + (repo ? ' for repo "' + repo + '"' : "")
ErrorText(message, repo) ==
  message \o (IF repo # "" THEN " for repo \"" \o repo \o "\"" ELSE "")

\* mutant: a later failure rewrites the response the first one ended
formatErrorResponseLast(response, message, repo, code, contentType) ==
  [res |-> [response EXCEPT !.statusCode = code, !.contentType = contentType,
                            !.finished = TRUE, !.sentStatus = code,
                            !.sentType = contentType,
                            !.sentText = ErrorText(message, repo)],
   threw |-> ""]

\* mutant: the repo suffix is left out
formatErrorResponseNoRepo(response, message, repo, code, contentType) ==
  IF response.finished
  THEN [res |-> [response EXCEPT !.statusCode = code], threw |-> "ERR_HTTP_HEADERS_SENT"]
  ELSE [res |-> [response EXCEPT !.statusCode = code, !.contentType = contentType,
                                 !.finished = TRUE, !.sentStatus = code,
                                 !.sentType = contentType, !.sentText = message],
        threw |-> ""]

\* formatErrorResponse({response, message, repo, code, contentType}); on a response
\* already ended the statusCode assignment goes through and setHeader throws
formatErrorResponse(response, message, repo, code, contentType) ==
  IF response.finished
  THEN [res |-> [response EXCEPT !.statusCode = code], threw |-> "ERR_HTTP_HEADERS_SENT"]
  ELSE [res |-> [response EXCEPT !.statusCode = code, !.contentType = contentType,
                                 !.finished = TRUE, !.sentStatus = code,
                                 !.sentType = contentType,
                                 !.sentText = ErrorText(message, repo)],
        threw |-> ""]

\* mutant: the header is set and the body is never sent
SendJsonNoEnd(response, body, records) ==
  IF response.finished
  THEN [res |-> response, threw |-> "ERR_HTTP_HEADERS_SENT"]
  ELSE [res |-> [response EXCEPT !.contentType = "application/json"], threw |-> ""]

\* res.setHeader("Content-Type", "application/json"); res.send(...)
SendJson(response, body, records) ==
  IF response.finished
  THEN [res |-> response, threw |-> "ERR_HTTP_HEADERS_SENT"]
  ELSE [res |-> [response EXCEPT !.contentType = "application/json", !.finished = TRUE,
                                 !.sentStatus = response.statusCode,
                                 !.sentType = "application/json",
                                 !.sentBody = body, !.sentRecords = records],
        threw |-> ""]

\* ------------------------------------------------------- upstream replies
\* what the request callback is called with: (error, response, body)
TransportError(e) == [error |-> e, hasResponse |-> FALSE, statusCode |-> 0, body |-> NoBody]
Reply(status, body) == [error |-> "", hasResponse |-> TRUE, statusCode |-> status, body |-> body]

\* the names of the owner's repositories, in the order the listing gives them
RepoNames == [i \in 1..MaxRepos |-> "repo" \o ToString(i)]
RepoName(i) == RepoNames[i]
RepoList(n) == [i \in 1..n |-> [name |-> RepoName(i)]]
FailStatuses == {NotFound, 403}
FailBody(s) == TextBody(IF s = NotFound THEN "Not Found" ELSE "API rate limit exceeded")

ReposReplies ==
  {TransportError("Error: connect ETIMEDOUT")}
    \cup {Reply(OK, JsonBody(RepoList(n))) : n \in 0..MaxRepos}
    \cup {Reply(OK, TextBody("<html>"))}
    \cup {Reply(s, FailBody(s)) : s \in FailStatuses}

\* the languages of the owner's repositories, as the upstream reports them
MapA == << <<"Go", 100>>, <<"Rust", 50>> >>
MapB == << <<"Rust", 30>>, <<"JavaScript", 5>> >>
MapC == << <<"Go", 20>> >>
LanguagesOf(repo) ==
  IF repo = RepoName(1) THEN MapA ELSE IF repo = RepoName(2) THEN MapB ELSE MapC

LanguagesReplies(repo) ==
  {TransportError("Error: connect ETIMEDOUT"),
   Reply(OK, JsonBody(LanguagesOf(repo))),
   Reply(OK, TextBody("<html>"))}
    \cup {Reply(s, FailBody(s)) : s \in FailStatuses}

AllLanguagesReplies == UNION {LanguagesReplies(RepoName(i)) : i \in 1..MaxRepos}

\* README.md of a repository, raw
ReadmeReplies ==
  {TransportError("Error: connect ETIMEDOUT"), Reply(OK, TextBody("hello"))}
    \cup {Reply(s, FailBody(s)) : s \in FailStatuses}

\* the commits of a repository, latest first
Commit == [html_url |-> "https://github.com/altany/c1",
           commit |-> [author |-> [date |-> "2020-01-01T00:00:00Z"], message |-> "init"]]
CommitsReplies ==
  {TransportError("Error: connect ETIMEDOUT"),
   Reply(OK, JsonBody(<<Commit>>)),
   Reply(OK, TextBody("<html>"))}
    \cup {Reply(s, FailBody(s)) : s \in FailStatuses}

ReadmeUrl(repo) == HOST \o "repos/" \o OWNER \o "/" \o repo \o "/contents/README.md"
CommitsUrl(repo) == HOST \o "repos/" \o OWNER \o "/" \o repo \o "/commits"
ReposUrl == HOST \o "users/" \o OWNER \o "/repos?sort=created"
LanguagesUrl(repo) == HOST \o "repos/" \o OWNER \o "/" \o repo \o "/languages"

\* ------------------------------------------------------ request callbacks
\* mutant: the upstream status is not passed on, the default code goes out
getReposCallbackDefaultCode(response, reply) ==
  IF reply.error # ""
  THEN LET f == formatErrorResponse(response, reply.error, "", DefaultCode, DefaultContentType)
       IN [res |-> f.res, settle |-> IF f.threw = "" THEN "reject" ELSE "",
           body |-> NoBody, uncaught |-> f.threw]
  ELSE IF reply.statusCode # OK
  THEN LET f == formatErrorResponse(response, reply.body.text, "", DefaultCode,
                                    "application/javascript")
       IN [res |-> f.res, settle |-> IF f.threw = "" THEN "reject" ELSE "",
           body |-> NoBody, uncaught |-> f.threw]
  ELSE [res |-> response, settle |-> "resolve", body |-> reply.body, uncaught |-> ""]

\* mutant: the trailing resolve(body) decides the outcome
getReposCallbackResolveWins(response, reply) ==
  IF reply.error # ""
  THEN LET f == formatErrorResponse(response, reply.error, "", DefaultCode, DefaultContentType)
       IN [res |-> f.res, settle |-> "resolve", body |-> reply.body, uncaught |-> f.threw]
  ELSE IF reply.statusCode # OK
  THEN LET f == formatErrorResponse(response, reply.body.text, "", reply.statusCode,
                                    "application/javascript")
       IN [res |-> f.res, settle |-> "resolve", body |-> reply.body, uncaught |-> f.threw]
  ELSE [res |-> response, settle |-> "resolve", body |-> reply.body, uncaught |-> ""]

\* The callback getRepos passes to request().  settle is the first of
\* reject/resolve the callback calls (a promise settles once: the resolve(body)
\* that follows a reject changes nothing); uncaught is what escapes the callback.
getReposCallback(response, reply) ==
  IF reply.error # ""
  THEN LET f == formatErrorResponse(response, reply.error, "", DefaultCode, DefaultContentType)
       IN [res |-> f.res, settle |-> IF f.threw = "" THEN "reject" ELSE "",
           body |-> NoBody, uncaught |-> f.threw]
  ELSE IF reply.statusCode # OK
  THEN LET f == formatErrorResponse(response, reply.body.text, "", reply.statusCode,
                                    "application/javascript")
       IN [res |-> f.res, settle |-> IF f.threw = "" THEN "reject" ELSE "",
           body |-> NoBody, uncaught |-> f.threw]
  ELSE [res |-> response, settle |-> "resolve", body |-> reply.body, uncaught |-> ""]

\* mutant: a 404 counts as a repository without languages and resolves with {}
AfterErrorBranchSkip404(response, repo, reply, first) ==
  IF first.uncaught # ""
  THEN first
  ELSE IF ~reply.hasResponse
  THEN [first EXCEPT !.uncaught = "TypeError"]
  ELSE IF reply.statusCode = NotFound
  THEN [first EXCEPT !.settle = IF first.settle = "" THEN "resolve" ELSE first.settle,
                     !.body = IF first.settle = "" THEN JsonBody(<<>>) ELSE first.body]
  ELSE IF reply.statusCode # OK
  THEN LET f == formatErrorResponse(first.res, reply.body.text, repo, reply.statusCode,
                                    "text/html")
       IN [res |-> f.res,
           settle |-> IF first.settle = "" /\ f.threw = "" THEN "reject" ELSE first.settle,
           body |-> NoBody, uncaught |-> f.threw]
  ELSE [first EXCEPT !.settle = IF first.settle = "" THEN "resolve" ELSE first.settle,
                     !.body = IF first.settle = "" THEN reply.body ELSE first.body]

\* lines 108-129 of the callback getRepoLanguages passes to request(), entered
\* after the if (error) block whichever way that block went (it does not return);
\* first is the outcome so far
AfterErrorBranch(response, repo, reply, first) ==
  IF first.uncaught # ""
  THEN first
  ELSE IF ~reply.hasResponse
  THEN [first EXCEPT !.uncaught = "TypeError"]
  ELSE IF reply.statusCode = NotFound
  THEN LET f == formatErrorResponse(first.res, "languages not found", repo, NotFound,
                                    DefaultContentType)
       IN [res |-> f.res,
           settle |-> IF first.settle = "" /\ f.threw = "" THEN "reject" ELSE first.settle,
           body |-> NoBody, uncaught |-> f.threw]
  ELSE IF reply.statusCode # OK
  THEN LET f == formatErrorResponse(first.res, reply.body.text, repo, reply.statusCode,
                                    "text/html")
       IN [res |-> f.res,
           settle |-> IF first.settle = "" /\ f.threw = "" THEN "reject" ELSE first.settle,
           body |-> NoBody, uncaught |-> f.threw]
  ELSE [first EXCEPT !.settle = IF first.settle = "" THEN "resolve" ELSE first.settle,
                     !.body = IF first.settle = "" THEN reply.body ELSE first.body]

\* the callback getRepoLanguages passes to request()
getRepoLanguagesCallback(response, repo, reply) ==
  LET first ==
        IF reply.error # ""
        THEN LET f == formatErrorResponse(response, reply.error, repo, DefaultCode,
                                          DefaultContentType)
             IN [res |-> f.res, settle |-> IF f.threw = "" THEN "reject" ELSE "",
                 body |-> NoBody, uncaught |-> f.threw]
        ELSE [res |-> response, settle |-> "", body |-> NoBody, uncaught |-> ""]
  IN AfterErrorBranch(response, repo, reply, first)

\* marked(body).toString() for a body of one plain paragraph
marked(text) == "<p>" \o text \o "</p>\n"

\* timeAgo(date), for a date years back
timeAgo(date) == IF date = "" THEN "" ELSE "years ago"

\* the error branches shared by the callbacks of /readme/:repo and /last-commit/:repo:
\* each returns what formatErrorResponse returns
DirectError(response, repo, reply, notFound) ==
  IF reply.error # ""
  THEN formatErrorResponse(response, reply.error, repo, DefaultCode, DefaultContentType)
  ELSE IF reply.statusCode = NotFound
  THEN formatErrorResponse(response, notFound, repo, NotFound, DefaultContentType)
  ELSE formatErrorResponse(response, reply.body.text, repo, reply.statusCode, "text/html")

\* res.setHeader("Content-Type", type); res.end(text)
End(response, type, text, records) ==
  IF response.finished
  THEN [res |-> response, threw |-> "ERR_HTTP_HEADERS_SENT"]
  ELSE [res |-> [response EXCEPT !.contentType = type, !.finished = TRUE,
                                 !.sentStatus = response.statusCode, !.sentType = type,
                                 !.sentText = text, !.sentRecords = records],
        threw |-> ""]

\* the callback of /readme/:repo
readmeCallback(response, repo, reply) ==
  IF reply.error # "" \/ reply.statusCode # OK
  THEN DirectError(response, repo, reply, "README.md not found")
  ELSE End(response, "text/html", marked(reply.body.text), <<>>)

\* the callback of /last-commit/:repo
lastCommitCallback(response, repo, reply) ==
  IF reply.error # "" \/ reply.statusCode # OK
  THEN DirectError(response, repo, reply, "Commit history not found")
  ELSE LET commits == JSON_parse(reply.body)
       IN IF commits.threw # ""
          THEN [res |-> response, threw |-> commits.threw]
          ELSE IF Len(commits.value) = 0
          THEN [res |-> response, threw |-> "TypeError"]
          ELSE LET commit == commits.value[1]
               IN End(response, "application/json", "",
                      <<[link |-> commit.html_url,
                         date |-> timeAgo(commit.commit.author.date),
                         message |-> commit.commit.message]>>)

\* ----------------------------------------------------- promise reactions
\* .then((response) => { setHeader; res.send(response) }) of /repos and /languages/:repo
SendThen(response, body) == SendJson(response, body, <<>>)

\* languageSets.map((set) => JSON.parse(set))
ParseSets(languageSets) ==
  IF \E i \in 1..Len(languageSets) : JSON_parse(languageSets[i]).threw # ""
  THEN [threw |-> "SyntaxError", value |-> <<>>]
  ELSE [threw |-> "",
        value |-> [i \in 1..Len(languageSets) |-> JSON_parse(languageSets[i]).value]]

\* mutant: an empty aggregate is answered as not found
AggregateThenRejectsEmpty(response, languageSets) ==
  LET languageObjects == ParseSets(languageSets)
  IN IF languageObjects.threw # ""
     THEN [res |-> response, threw |-> languageObjects.threw]
     ELSE IF Len(languageSets) = 0
     THEN formatErrorResponse(response, "languages not found", "", NotFound,
                              DefaultContentType)
     ELSE SendJson(response, NoBody, ToRecords(sumObjectsByKeys(languageObjects.value)))

\* .then((languageSets) => {...}) of the Promise.all in /languages
AggregateThen(response, languageSets) ==
  LET languageObjects == ParseSets(languageSets)
  IN IF languageObjects.threw # ""
     THEN [res |-> response, threw |-> languageObjects.threw]
     ELSE SendJson(response, NoBody, ToRecords(sumObjectsByKeys(languageObjects.value)))

\* a getRepoLanguages call just issued
NewFetch(repo) == [repo |-> repo, inflight |-> TRUE, state |-> "pending", body |-> NoBody]

\* mutant: the values are handed over last promise first
LanguageSetsReversed(fs) == [i \in 1..Len(fs) |-> fs[Len(fs) + 1 - i].body]

\* Promise.all's array of values, in the order of the promises
LanguageSets(fs) == [i \in 1..Len(fs) |-> fs[i].body]

AllResolved(fs) == \A i \in 1..Len(fs) : fs[i].state = "resolved"

\* mutant: the join resolves with the first fetch that resolves
PromiseAllAny(joinState, fs, settle) ==
  IF joinState # "pending" THEN joinState
  ELSE IF settle = "reject" THEN "rejected"
  ELSE IF settle = "resolve" THEN "resolved"
  ELSE "pending"

\* Promise.all(fetches): its state after one of its promises settled
PromiseAll(joinState, fs, settle) ==
  IF joinState # "pending" THEN joinState
  ELSE IF settle = "reject" THEN "rejected"
  ELSE IF settle = "resolve" /\ AllResolved(fs) THEN "resolved"
  ELSE "pending"

\* mutant: the fan-out is capped at one fetch
ListingReactionCapped(rt, cb, opts) ==
  LET idle == [res |-> cb.res, fetches |-> <<>>, join |-> "none", caught |-> <<>>,
               options |-> opts]
  IN IF cb.uncaught # "" \/ cb.settle = ""
     THEN idle
     ELSE IF cb.settle = "reject"
     THEN [idle EXCEPT !.caught = <<"rejection">>]
     ELSE IF rt = "repos"
     THEN LET t == SendThen(cb.res, cb.body)
          IN [idle EXCEPT !.res = t.res,
                          !.caught = IF t.threw = "" THEN <<>> ELSE <<t.threw>>]
     ELSE LET repos == JSON_parse(cb.body)
              n == Len(repos.value)
          IN IF repos.threw # ""
             THEN [idle EXCEPT !.caught = <<repos.threw>>]
             ELSE IF n = 0
             THEN LET t == AggregateThen(cb.res, <<>>)
                  IN [idle EXCEPT !.res = t.res, !.join = "resolved",
                                  !.caught = IF t.threw = "" THEN <<>> ELSE <<t.threw>>]
             ELSE [idle EXCEPT
                     !.fetches = [i \in 1..1 |-> NewFetch(repos.value[i].name)],
                     !.join = "pending",
                     !.options = [opts EXCEPT !.url = LanguagesUrl(repos.value[1].name)]]

\* What follows the settling of getRepos(res) in the same turn, per route:
\* /repos sends the body; /languages parses it and fans out, and with no repository
\* Promise.all([]) is resolved at once; either .catch((error) => error) takes a
\* rejection or an exception of the then handler.
ListingReaction(rt, cb, opts) ==
  LET idle == [res |-> cb.res, fetches |-> <<>>, join |-> "none", caught |-> <<>>,
               options |-> opts]
  IN IF cb.uncaught # "" \/ cb.settle = ""
     THEN idle
     ELSE IF cb.settle = "reject"
     THEN [idle EXCEPT !.caught = <<"rejection">>]
     ELSE IF rt = "repos"
     THEN LET t == SendThen(cb.res, cb.body)
          IN [idle EXCEPT !.res = t.res,
                          !.caught = IF t.threw = "" THEN <<>> ELSE <<t.threw>>]
     ELSE LET repos == JSON_parse(cb.body)
              n == Len(repos.value)
          IN IF repos.threw # ""
             THEN [idle EXCEPT !.caught = <<repos.threw>>]
             ELSE IF n = 0
             THEN LET t == AggregateThen(cb.res, <<>>)
                  IN [idle EXCEPT !.res = t.res, !.join = "resolved",
                                  !.caught = IF t.threw = "" THEN <<>> ELSE <<t.threw>>]
             ELSE [idle EXCEPT
                     !.fetches = [i \in 1..n |-> NewFetch(repos.value[i].name)],
                     !.join = "pending",
                     !.options = [opts EXCEPT !.url = LanguagesUrl(repos.value[n].name)]]

\* mutant: the totals of the fetches resolved so far are sent with the first that resolves
FetchReactionEager(rt, cb, joinState, fs) ==
  LET idle == [res |-> cb.res, join |-> joinState, caught |-> <<>>]
  IN IF cb.uncaught # "" \/ cb.settle = ""
     THEN idle
     ELSE IF rt = "languagesRepo"
     THEN IF cb.settle = "reject"
          THEN [idle EXCEPT !.caught = <<"rejection">>]
          ELSE LET t == SendThen(cb.res, cb.body)
               IN [idle EXCEPT !.res = t.res,
                               !.caught = IF t.threw = "" THEN <<>> ELSE <<t.threw>>]
     ELSE LET j == PromiseAllAny(joinState, fs, cb.settle)
          IN IF j = joinState
             THEN idle
             ELSE IF j = "rejected"
             THEN [idle EXCEPT !.join = j, !.caught = <<"rejection">>]
             ELSE LET t == AggregateThen(cb.res, LanguageSets(SelectSeq(fs, LAMBDA f : f.state = "resolved")))
                  IN [idle EXCEPT !.res = t.res, !.join = j,
                                  !.caught = IF t.threw = "" THEN <<>> ELSE <<t.threw>>]

\* What follows the settling of one getRepoLanguages promise in the same turn:
\* /languages/:repo sends the body; in /languages the Promise.all may settle, and
\* once resolved its then handler merges and sends.
FetchReaction(rt, cb, joinState, fs) ==
  LET idle == [res |-> cb.res, join |-> joinState, caught |-> <<>>]
  IN IF cb.uncaught # "" \/ cb.settle = ""
     THEN idle
     ELSE IF rt = "languagesRepo"
     THEN IF cb.settle = "reject"
          THEN [idle EXCEPT !.caught = <<"rejection">>]
          ELSE LET t == SendThen(cb.res, cb.body)
               IN [idle EXCEPT !.res = t.res,
                               !.caught = IF t.threw = "" THEN <<>> ELSE <<t.threw>>]
     ELSE LET j == PromiseAll(joinState, fs, cb.settle)
          IN IF j = joinState
             THEN idle
             ELSE IF j = "rejected"
             THEN [idle EXCEPT !.join = j, !.caught = <<"rejection">>]
             ELSE LET t == AggregateThen(cb.res, LanguageSets(fs))
                  IN [idle EXCEPT !.res = t.res, !.join = j,
                                  !.caught = IF t.threw = "" THEN <<>> ELSE <<t.threw>>]

\* ------------------------------------------------------------------ server
\* a log entry: the upstream call that completed and what it completed with
Completion(call, repo, i, reply) ==
  [call |-> call, repo |-> repo, index |-> i, error |-> reply.error,
   statusCode |-> reply.statusCode, body |-> reply.body]

ServerInit ==
  /\ options = [url |-> ""]
  /\ route = [r \in AllReqs |-> ""]
  /\ res = [r \in AllReqs |-> NewResponse]
  /\ listing = [r \in AllReqs |-> "none"]
  /\ fetches = [r \in AllReqs |-> <<>>]
  /\ join = [r \in AllReqs |-> "none"]
  /\ direct = [r \in AllReqs |-> [state |-> "none", repo |-> ""]]
  /\ swallowed = [r \in AllReqs |-> <<>>]
  /\ log = [r \in AllReqs |-> <<>>]
  /\ uncaught = ""
  /\ calls = <<>>

MergeIdle ==
  /\ objects = <<>>
  /\ arrival = <<>>
  /\ totals = <<>>
  /\ totalsP = <<>>
  /\ mpc = "idle"

Init == ServerInit /\ MergeIdle

\* requests are numbered in the order they arrive
Arrives(r) == route[r] = "" /\ \A q \in AllReqs : q < r => route[q] # ""

\* app.get("/repos"): getRepos(res) sets options.url and issues the call
RouteRepos(r) ==
  /\ uncaught = ""
  /\ Arrives(r)
  /\ route' = [route EXCEPT ![r] = "repos"]
  /\ options' = [options EXCEPT !.url = ReposUrl]
  /\ listing' = [listing EXCEPT ![r] = "pending"]
  /\ UNCHANGED <<res, fetches, join, direct, swallowed, log, uncaught>>
  /\ UNCHANGED <<calls, mergeVars>>

\* app.get("/languages/:repo"): getRepoLanguages(req.params.repo, res)
RouteLanguagesRepo(r, repo) ==
  /\ uncaught = ""
  /\ Arrives(r)
  /\ route' = [route EXCEPT ![r] = "languagesRepo"]
  /\ options' = [options EXCEPT !.url = LanguagesUrl(repo)]
  /\ fetches' = [fetches EXCEPT ![r] = <<NewFetch(repo)>>]
  /\ UNCHANGED <<res, listing, join, direct, swallowed, log, uncaught>>
  /\ UNCHANGED <<calls, mergeVars>>

\* app.get("/languages"): getRepos(res) first
RouteLanguages(r) ==
  /\ uncaught = ""
  /\ Arrives(r)
  /\ route' = [route EXCEPT ![r] = "languages"]
  /\ options' = [options EXCEPT !.url = ReposUrl]
  /\ listing' = [listing EXCEPT ![r] = "pending"]
  /\ UNCHANGED <<res, fetches, join, direct, swallowed, log, uncaught>>
  /\ UNCHANGED <<calls, mergeVars>>

\* app.get("/readme/:repo")
RouteReadme(r, repo) ==
  /\ uncaught = ""
  /\ Arrives(r)
  /\ route' = [route EXCEPT ![r] = "readme"]
  /\ options' = [options EXCEPT !.url = ReadmeUrl(repo)]
  /\ direct' = [direct EXCEPT ![r] = [state |-> "pending", repo |-> repo]]
  /\ UNCHANGED <<res, listing, fetches, join, swallowed, log, uncaught>>
  /\ UNCHANGED <<calls, mergeVars>>

\* app.get("/last-commit/:repo")
RouteLastCommit(r, repo) ==
  /\ uncaught = ""
  /\ Arrives(r)
  /\ route' = [route EXCEPT ![r] = "lastCommit"]
  /\ options' = [options EXCEPT !.url = CommitsUrl(repo)]
  /\ direct' = [direct EXCEPT ![r] = [state |-> "pending", repo |-> repo]]
  /\ UNCHANGED <<res, listing, fetches, join, swallowed, log, uncaught>>
  /\ UNCHANGED <<calls, mergeVars>>

\* the call of /readme/:repo completes with reply
ReadmeCallback(r, reply) ==
  /\ uncaught = ""
  /\ route[r] = "readme"
  /\ direct[r].state = "pending"
  /\ \E cb \in {readmeCallback(res[r], direct[r].repo, reply)} :
       /\ res' = [res EXCEPT ![r] = cb.res]
       /\ uncaught' = cb.threw
  /\ direct' = [direct EXCEPT ![r].state = "done"]
  /\ log' = [log EXCEPT ![r] = Append(@, Completion("readme", direct[r].repo, 0, reply))]
  /\ UNCHANGED <<options, route, listing, fetches, join, swallowed>>
  /\ UNCHANGED <<calls, mergeVars>>

\* the call of /last-commit/:repo completes with reply
LastCommitCallback(r, reply) ==
  /\ uncaught = ""
  /\ route[r] = "lastCommit"
  /\ direct[r].state = "pending"
  /\ \E cb \in {lastCommitCallback(res[r], direct[r].repo, reply)} :
       /\ res' = [res EXCEPT ![r] = cb.res]
       /\ uncaught' = cb.threw
  /\ direct' = [direct EXCEPT ![r].state = "done"]
  /\ log' = [log EXCEPT ![r] = Append(@, Completion("commits", direct[r].repo, 0, reply))]
  /\ UNCHANGED <<options, route, listing, fetches, join, swallowed>>
  /\ UNCHANGED <<calls, mergeVars>>

\* the listing call of r completes with reply
ReposCallback(r, reply) ==
  /\ uncaught = ""
  /\ listing[r] = "pending"
  /\ \E cb \in {getReposCallback(res[r], reply)} :
       \E next \in {ListingReaction(route[r], cb, options)} :
         /\ listing' = [listing EXCEPT ![r] =
                          IF cb.settle = "resolve" THEN "resolved" ELSE "rejected"]
         /\ res' = [res EXCEPT ![r] = next.res]
         /\ fetches' = [fetches EXCEPT ![r] = next.fetches]
         /\ join' = [join EXCEPT ![r] = next.join]
         /\ swallowed' = [swallowed EXCEPT ![r] = @ \o next.caught]
         /\ options' = next.options
         /\ log' = [log EXCEPT ![r] = Append(@, Completion("repos", "", 0, reply))]
         /\ uncaught' = cb.uncaught
  /\ UNCHANGED <<route, direct>>
  /\ UNCHANGED <<calls, mergeVars>>

\* the state of a getRepoLanguages call once its callback has run
Settled(fetch, cb) ==
  [repo |-> fetch.repo, inflight |-> FALSE,
   state |-> IF cb.settle = "resolve" THEN "resolved"
             ELSE IF cb.settle = "reject" THEN "rejected"
             ELSE "pending",
   body |-> cb.body]

\* the languages call of r for its i-th repository completes with reply
LanguagesCallback(r, i, reply) ==
  /\ uncaught = ""
  /\ i \in 1..Len(fetches[r])
  /\ fetches[r][i].inflight
  /\ reply \in LanguagesReplies(fetches[r][i].repo)
  /\ \E cb \in {getRepoLanguagesCallback(res[r], fetches[r][i].repo, reply)} :
       \E fs \in {[fetches[r] EXCEPT ![i] = Settled(@, cb)]} :
         \E next \in {FetchReaction(route[r], cb, join[r], fs)} :
           /\ fetches' = [fetches EXCEPT ![r] = fs]
           /\ res' = [res EXCEPT ![r] = next.res]
           /\ join' = [join EXCEPT ![r] = next.join]
           /\ swallowed' = [swallowed EXCEPT ![r] = @ \o next.caught]
           /\ log' = [log EXCEPT ![r] =
                        Append(@, Completion("languages", fetches[r][i].repo, i, reply))]
           /\ uncaught' = cb.uncaught
  /\ UNCHANGED <<options, route, listing, direct>>
  /\ UNCHANGED <<calls, mergeVars>>

Next ==
  \/ \E r \in Reqs : RouteRepos(r)
  \/ \E r \in Reqs : \E i \in 1..MaxRepos : RouteLanguagesRepo(r, RepoName(i))
  \/ \E r \in Reqs : RouteLanguages(r)
  \/ \E r \in Reqs : \E i \in 1..MaxRepos : RouteReadme(r, RepoName(i))
  \/ \E r \in Reqs : \E i \in 1..MaxRepos : RouteLastCommit(r, RepoName(i))
  \/ \E r \in Reqs : \E reply \in ReadmeReplies : ReadmeCallback(r, reply)
  \/ \E r \in Reqs : \E reply \in CommitsReplies : LastCommitCallback(r, reply)
  \/ \E r \in Reqs : \E reply \in ReposReplies : ReposCallback(r, reply)
  \/ \E r \in Reqs : \E i \in 1..MaxRepos : \E reply \in AllLanguagesReplies :
       LanguagesCallback(r, i, reply)

Spec == Init /\ [][Next]_vars

\* ------------------------------------------- sumObjectsByKeys on its own
Languages == {"Go", "Rust"}
ByteCounts(language) == IF language = "Go" THEN {20, 100} ELSE {0, 50}

\* the orders in which a map can list some of the languages
KeyOrders ==
  {ks \in UNION {[1..n -> Languages] : n \in 0..Cardinality(Languages)} :
     \A i, j \in 1..Len(ks) : i # j => ks[i] # ks[j]}

\* every LanguageMap over Languages with these byte counts
LanguageMaps ==
  UNION {{[i \in 1..Len(ks) |-> <<ks[i], f[i]>>] :
            f \in {g \in [1..Len(ks) -> UNION {ByteCounts(l) : l \in Languages}] :
                     \A i \in 1..Len(ks) : g[i] \in ByteCounts(ks[i])}} :
         ks \in KeyOrders}

MergeInit ==
  /\ ServerInit
  /\ objects \in UNION {[1..n -> LanguageMaps] : n \in 0..MaxMaps}
  /\ arrival = objects
  /\ totals = <<>>
  /\ totalsP = <<>>
  /\ mpc = "start"

\* sumObjectsByKeys(...objects)
Merge ==
  /\ mpc = "start"
  /\ totals' = sumObjectsByKeys(objects)
  /\ mpc' = "merged"
  /\ UNCHANGED <<objects, arrival, totalsP>>
  /\ UNCHANGED serverVars

\* sumObjectsByKeys on the same maps arriving in the order p
MergeArrival(p) ==
  /\ mpc = "merged"
  /\ arrival' = [i \in 1..Len(objects) |-> objects[p[i]]]
  /\ totalsP' = sumObjectsByKeys(arrival')
  /\ mpc' = "permuted"
  /\ UNCHANGED <<objects, totals>>
  /\ UNCHANGED serverVars

MergeNext ==
  \/ Merge
  \/ \E p \in Permutations(1..Len(objects)) : MergeArrival(p)

MergeSpec == MergeInit /\ [][MergeNext]_vars

\* ------------------------------------------ concurrent /languages requests
\* MaxAggReqs requests to /languages, their calls completing in any interleaving,
\* each call with its listing or language map or, a language call, with a 404.
AggReposReplies == {Reply(OK, JsonBody(RepoList(n))) : n \in 0..MaxRepos}

AggLanguagesReplies ==
  {Reply(OK, JsonBody(LanguagesOf(RepoName(i)))) : i \in 1..MaxRepos}
    \cup {Reply(NotFound, FailBody(NotFound))}

AggNext ==
  \/ \E r \in AggReqs : RouteLanguages(r)
  \/ \E r \in AggReqs : \E reply \in AggReposReplies : ReposCallback(r, reply)
  \/ \E r \in AggReqs : \E i \in 1..MaxRepos : \E reply \in AggLanguagesReplies :
       LanguagesCallback(r, i, reply)

AggSpec == Init /\ [][AggNext]_vars

\* --------------------------------------------- every upstream call completes
\* The callback of a call runs in a turn of its own once the call has completed; in a
\* run in which every issued call completes, a callback step is taken as long as one
\* is enabled.
CallbackStep ==
  \E r \in Reqs :
    \/ \E reply \in ReposReplies : ReposCallback(r, reply)
    \/ \E i \in 1..MaxRepos : \E reply \in AllLanguagesReplies :
         LanguagesCallback(r, i, reply)
    \/ \E reply \in ReadmeReplies : ReadmeCallback(r, reply)
    \/ \E reply \in CommitsReplies : LastCommitCallback(r, reply)

Fairness == WF_vars(CallbackStep)

FairSpec == Spec /\ Fairness

\* ------------------------------------- the url an upstream call is sent to
\* Spec leaves out which url a call goes to. Here the handlers are reduced to what
\* they do to options and to the calls they issue: each writes its url into the
\* shared options object and hands that object to request(options, callback). The
\* request function (request-extensible with the request-http-cache extension) reads
\* options.url either at once, in the caller's synchronous step, or later, after that
\* step has returned; both are outcomes the program can produce.
NewCall(url, sent) == [url |-> url, sent |-> sent, handled |-> FALSE]

\* options.url = url; request(options, ...): read at once or deferred
ReadTimes(url) == {url, ""}

\* getRepos(res), from /repos or /languages
UrlGetRepos ==
  /\ Len(calls) < MaxCalls
  /\ options' = [options EXCEPT !.url = ReposUrl]
  /\ \E sent \in ReadTimes(ReposUrl) : calls' = Append(calls, NewCall(ReposUrl, sent))
  /\ UNCHANGED <<route, res, listing, fetches, join, direct, swallowed, log, uncaught>>
  /\ UNCHANGED mergeVars

\* getRepoLanguages(repo, res), from /languages/:repo
UrlGetRepoLanguages(repo) ==
  /\ Len(calls) < MaxCalls
  /\ options' = [options EXCEPT !.url = LanguagesUrl(repo)]
  /\ \E sent \in ReadTimes(LanguagesUrl(repo)) :
       calls' = Append(calls, NewCall(LanguagesUrl(repo), sent))
  /\ UNCHANGED <<route, res, listing, fetches, join, direct, swallowed, log, uncaught>>
  /\ UNCHANGED mergeVars

\* the call of /readme/:repo or /last-commit/:repo
UrlDirect(url) ==
  /\ Len(calls) < MaxCalls
  /\ options' = [options EXCEPT !.url = url]
  /\ \E sent \in ReadTimes(url) : calls' = Append(calls, NewCall(url, sent))
  /\ UNCHANGED <<route, res, listing, fetches, join, direct, swallowed, log, uncaught>>
  /\ UNCHANGED mergeVars

\* JSON.parse(repos).map((repo) => getRepoLanguages(repo.name, res)) for a listing of
\* n repositories whose call c has completed: n calls issued in one synchronous step,
\* each writing options.url; early is the set of those read at once
UrlFanOut(c, n, early) ==
  /\ c \in 1..Len(calls)
  /\ calls[c].url = ReposUrl
  /\ calls[c].sent # ""
  /\ ~calls[c].handled
  /\ Len(calls) + n <= MaxCalls
  /\ options' = [options EXCEPT !.url = LanguagesUrl(RepoName(n))]
  /\ calls' = [calls EXCEPT ![c].handled = TRUE] \o
                [i \in 1..n |-> NewCall(LanguagesUrl(RepoName(i)),
                                        IF i \in early THEN LanguagesUrl(RepoName(i)) ELSE "")]
  /\ UNCHANGED <<route, res, listing, fetches, join, direct, swallowed, log, uncaught>>
  /\ UNCHANGED mergeVars

\* a deferred read: the call c is sent to the url options holds now
UrlRead(c) ==
  /\ c \in 1..Len(calls)
  /\ calls[c].sent = ""
  /\ calls' = [calls EXCEPT ![c].sent = options.url]
  /\ UNCHANGED <<options, route, res, listing, fetches, join, direct, swallowed, log,
                 uncaught>>
  /\ UNCHANGED mergeVars

UrlNext ==
  \/ UrlGetRepos
  \/ \E i \in 1..MaxRepos : UrlGetRepoLanguages(RepoName(i))
  \/ \E i \in 1..MaxRepos : UrlDirect(ReadmeUrl(RepoName(i)))
  \/ \E i \in 1..MaxRepos : UrlDirect(CommitsUrl(RepoName(i)))
  \/ \E c \in 1..MaxCalls : \E n \in 1..MaxRepos : \E early \in SUBSET (1..n) :
       UrlFanOut(c, n, early)
  \/ \E c \in 1..MaxCalls : UrlRead(c)

UrlSpec == Init /\ [][UrlNext]_vars

\* =================================================================== claims
Failed(e) == e.error # "" \/ e.statusCode # 200

\* the status and message a failed languages call is to be answered with
ExpectedCode(e) == IF e.error # "" THEN 500 ELSE e.statusCode
ExpectedMessage(e) ==
  IF e.error # "" THEN e.error
  ELSE IF e.statusCode = 404 THEN "languages not found"
  ELSE e.body.text
ForRepo(repo) == " for repo \"" \o repo \o "\""

FailedFetches(r) ==
  {k \in 1..Len(log[r]) : log[r][k].call = "languages" /\ Failed(log[r][k])}

RECURSIVE SumOf(_, _, _)
SumOf(objs, language, k) ==
  IF k > Len(objs) THEN 0
  ELSE (IF HasOwn(objs[k], language) THEN Get(objs[k], language) ELSE 0)
         + SumOf(objs, language, k + 1)

\* C1: the result of sumObjectsByKeys(m1..mn) has exactly the keys of the maps,
\* each once, and under each key the sum of the maps' values for it.
MergeCorrect ==
  mpc \in {"merged", "permuted"} =>
    /\ Keys(totals) = UNION {Keys(objects[k]) : k \in 1..Len(objects)}
    /\ Cardinality(Keys(totals)) = Len(totals)
    /\ \A language \in Keys(totals) : Get(totals, language) = SumOf(objects, language, 1)

\* {Go:100, Rust:50} and {Go:20} merged into {Go:120, Rust:50}
MergeCorrectWitness ==
  /\ mpc = "merged"
  /\ objects = << << <<"Go", 100>>, <<"Rust", 50>> >>, << <<"Go", 20>> >> >>
  /\ totals = << <<"Go", 120>>, <<"Rust", 50>> >>

\* C2: a /languages request with a failed language fetch is answered with a failure
\* response and never with a 200 carrying records.
NoPartialSuccess ==
  \A r \in Reqs :
    route[r] = "languages" /\ FailedFetches(r) # {} =>
      /\ res[r].finished
      /\ res[r].sentStatus # 200
      /\ res[r].sentText # ""
      /\ res[r].sentRecords = <<>>

\* one fetch has succeeded, its sibling has failed
NoPartialSuccessWitness ==
  \E r \in Reqs :
    /\ route[r] = "languages"
    /\ Len(log[r]) = 3
    /\ ~Failed(log[r][2]) /\ log[r][2].body.json
    /\ Failed(log[r][3])
    /\ res[r].finished

\* C3: the response of a /languages request carries the code and the repo name of
\* the failure handled first.
FirstFailureWins ==
  \A r \in Reqs :
    route[r] = "languages" /\ FailedFetches(r) # {} =>
      LET k == CHOOSE k \in FailedFetches(r) : \A j \in FailedFetches(r) : k <= j
          e == log[r][k]
      IN /\ res[r].sentStatus = ExpectedCode(e)
         /\ res[r].sentText = ExpectedMessage(e) \o ForRepo(e.repo)

\* two fetches have failed with different codes, the later repository first
FirstFailureWinsWitness ==
  \E r \in Reqs :
    /\ route[r] = "languages"
    /\ \E j, k \in FailedFetches(r) :
         /\ j < k
         /\ log[r][j].index > log[r][k].index
         /\ ExpectedCode(log[r][j]) # ExpectedCode(log[r][k])

\* C4: a failed listing answers the /languages request with the upstream status
\* (500 for a transport error); no language fetch is issued, nothing is merged.
ListingFailed(r) ==
  /\ route[r] = "languages"
  /\ Len(log[r]) >= 1
  /\ log[r][1].call = "repos"
  /\ Failed(log[r][1])

ListingFailureFatal ==
  \A r \in Reqs :
    ListingFailed(r) =>
      /\ res[r].finished
      /\ res[r].sentStatus = ExpectedCode(log[r][1])
      /\ res[r].sentStatus # 200
      /\ res[r].sentRecords = <<>>
      /\ fetches[r] = <<>>
      /\ join[r] = "none"
      /\ Len(log[r]) = 1

ListingFailureFatalWitness ==
  \E r \in Reqs : ListingFailed(r) /\ log[r][1].statusCode = 403

TransportErrorHandled ==
  \A r \in Reqs :
    \A k \in 1..Len(log[r]) :
      LET e == log[r][k]
      IN e.call = "languages" /\ e.error # "" =>
           /\ fetches[r][e.index].state = "rejected"
           /\ res[r].sentStatus = 500
           /\ res[r].sentText = e.error \o ForRepo(e.repo)
           /\ uncaught = ""

\* C7: getRepos resolves iff the listing call ends without error and with status 200;
\* a transport error is answered 500, another status s is answered s with the upstream
\* body; /repos sends the body on success only.
ListerMapping ==
  \A r \in Reqs :
    route[r] \in {"repos", "languages"} /\ Len(log[r]) >= 1 =>
      LET e == log[r][1]
      IN /\ listing[r] \in {"resolved", "rejected"}
         /\ listing[r] = "resolved" <=> ~Failed(e)
         /\ e.error # "" =>
              res[r].finished /\ res[r].sentStatus = 500 /\ res[r].sentText = e.error
         /\ e.error = "" /\ e.statusCode # 200 =>
              /\ res[r].finished
              /\ res[r].sentStatus = e.statusCode
              /\ res[r].sentText = e.body.text
         /\ route[r] = "repos" /\ Failed(e) =>
              res[r].sentBody = NoBody /\ swallowed[r] = <<"rejection">>
         /\ route[r] = "repos" /\ ~Failed(e) =>
              res[r].finished /\ res[r].sentStatus = 200 /\ res[r].sentBody = e.body

\* /repos with a listing that ended 404, answered 404 like any other status
ListerMappingWitness ==
  \E r \in Reqs :
    /\ route[r] = "repos"
    /\ Len(log[r]) = 1
    /\ log[r][1].statusCode = 404
    /\ listing[r] = "rejected"
    /\ res[r].sentStatus = 404

\* C8: a listing of zero repositories gives /languages a 200 application/json answer
\* with the empty record list, in the turn the listing completes, without any fetch.
EmptyListing(r) ==
  /\ route[r] = "languages"
  /\ Len(log[r]) >= 1
  /\ ~Failed(log[r][1])
  /\ log[r][1].body.json
  /\ Len(log[r][1].body.value) = 0

EmptyInput ==
  \A r \in Reqs :
    EmptyListing(r) =>
      /\ fetches[r] = <<>>
      /\ Len(log[r]) = 1
      /\ res[r].finished
      /\ res[r].sentStatus = 200
      /\ res[r].sentType = "application/json"
      /\ res[r].sentRecords = <<>>
      /\ res[r].sentText = ""
      /\ swallowed[r] = <<>>

EmptyInputWitness ==
  \E r \in Reqs : EmptyListing(r) /\ join[r] = "resolved" /\ res[r].finished

\* C9: sumObjectsByKeys gives the same keys and the same value under every key for
\* the maps in any order; only the order of the keys may differ.
MergeCommutes ==
  mpc = "permuted" =>
    /\ Keys(totalsP) = Keys(totals)
    /\ \A language \in Keys(totals) : Get(totalsP, language) = Get(totals, language)

\* another order of MaxMaps maps, with the keys of the result in another order
MergeCommutesWitness ==
  /\ mpc = "permuted"
  /\ Len(objects) = MaxMaps
  /\ arrival # objects
  /\ totalsP # totals
  /\ \E language \in Keys(totals) : Get(totals, language) > 100

\* C10: every error of a request (a failed upstream call, an exception caught by a
\* promise handler) is answered with an error status and a message.
NoErrorSwallowed ==
  \A r \in Reqs :
    /\ route[r] \in {"repos", "languagesRepo", "languages"}
    /\ \/ \E k \in 1..Len(log[r]) : Failed(log[r][k])
       \/ \E k \in 1..Len(swallowed[r]) : swallowed[r][k] # "rejection"
    => /\ res[r].finished
       /\ res[r].sentStatus # 200
       /\ res[r].sentText # ""

\* C11: the Promise.all of a /languages request is resolved, and its 200 answer with
\* the merged totals is sent, only in a state where every one of the request's N
\* language fetches has completed and resolved; none is still in flight.
MergeAfterJoin ==
  \A r \in Reqs :
    route[r] = "languages" /\ (join[r] = "resolved" \/ res[r].sentStatus = 200) =>
      /\ join[r] = "resolved"
      /\ \A i \in 1..Len(fetches[r]) :
           ~fetches[r][i].inflight /\ fetches[r][i].state = "resolved"
      /\ Len(log[r]) = 1 + Len(fetches[r])
      /\ \A k \in 2..Len(log[r]) : ~Failed(log[r][k])

\* MaxRepos fetches have all resolved and the totals have been sent
MergeAfterJoinWitness ==
  \E r \in Reqs :
    /\ route[r] = "languages"
    /\ Len(fetches[r]) = MaxRepos
    /\ join[r] = "resolved"
    /\ res[r].finished
    /\ res[r].sentStatus = 200
    /\ Len(res[r].sentRecords) > 0

\* the repository names of the listing a /languages request received
ListedNames(r) == [i \in 1..Len(log[r][1].body.value) |-> log[r][1].body.value[i].name]

ListingSucceeded(r) ==
  /\ route[r] = "languages"
  /\ Len(log[r]) >= 1
  /\ ~Failed(log[r][1])
  /\ log[r][1].body.json

CompletionsOf(r, i) ==
  {k \in 1..Len(log[r]) : log[r][k].call = "languages" /\ log[r][k].index = i}

\* C12: once the listing of a /languages request has succeeded with N repositories,
\* the request has exactly N language fetches, the i-th for the i-th listed name, all
\* issued in the turn of the listing (all N in flight before any completion is
\* handled), and each is either still in flight or has completed exactly once.
TrueFanOut ==
  \A r \in Reqs :
    ListingSucceeded(r) =>
      /\ Len(fetches[r]) = Len(ListedNames(r))
      /\ \A i \in 1..Len(fetches[r]) :
           /\ fetches[r][i].repo = ListedNames(r)[i]
           /\ Cardinality(CompletionsOf(r, i)) = IF fetches[r][i].inflight THEN 0 ELSE 1
           /\ \A k \in CompletionsOf(r, i) : log[r][k].repo = ListedNames(r)[i]
      /\ Len(log[r]) = 1 => \A i \in 1..Len(fetches[r]) : fetches[r][i].inflight

\* the listing of MaxRepos repositories has just been handled: MaxRepos fetches in flight
TrueFanOutWitness ==
  \E r \in Reqs :
    /\ ListingSucceeded(r)
    /\ Len(log[r]) = 1
    /\ Len(fetches[r]) = MaxRepos
    /\ \A i \in 1..MaxRepos : fetches[r][i].inflight /\ fetches[r][i].repo = RepoName(i)

\* a /languages request answered 200 after at least one language fetch
FullSuccess(r) ==
  /\ ListingSucceeded(r)
  /\ Len(fetches[r]) >= 1
  /\ res[r].finished
  /\ res[r].sentStatus = 200

\* the LanguageMaps of a fully successful request in the order their fetches completed
ArrivalMaps(r) == [k \in 1..(Len(log[r]) - 1) |-> log[r][k + 1].body.value]

\* the same maps in the order of the listing
ListingMaps(r) ==
  [i \in 1..Len(fetches[r]) |->
     log[r][CHOOSE k \in 1..Len(log[r]) :
              log[r][k].call = "languages" /\ log[r][k].index = i].body.value]

\* C13 as stated: on full success the records are those of the merge of the maps in
\* the order in which their fetches completed.
OutputInArrivalOrder ==
  \A r \in Reqs :
    FullSuccess(r) => res[r].sentRecords = ToRecords(sumObjectsByKeys(ArrivalMaps(r)))

\* C13: on full success the maps are merged in the order of the listing, whatever the
\* order in which their fetches completed, and the response has one {language, value}
\* record per key of the totals in the first-seen order of that merge, unsorted; the
\* record list is therefore the same for every completion order.
OutputInListingOrder ==
  \A r \in Reqs :
    FullSuccess(r) =>
      /\ res[r].sentRecords = ToRecords(sumObjectsByKeys(ListingMaps(r)))
      /\ Len(res[r].sentRecords) = Cardinality(Keys(sumObjectsByKeys(ListingMaps(r))))

\* the fetch of the second repository completed first, and the records are not those
\* of the merge in completion order
OutputInListingOrderWitness ==
  \E r \in Reqs :
    /\ FullSuccess(r)
    /\ Len(fetches[r]) = MaxRepos
    /\ log[r][2].index > log[r][3].index
    /\ res[r].sentRecords # ToRecords(sumObjectsByKeys(ArrivalMaps(r)))
    /\ res[r].sentRecords[1].language = "Go"

\* a /languages request one of whose language fetches has not completed
FetchHung(r) ==
  /\ route[r] = "languages"
  /\ \E i \in 1..Len(fetches[r]) : fetches[r][i].inflight

\* C14 as stated: a /languages request with a language fetch that has not completed
\* has received no response, whatever its sibling fetches completed with.
HungFetchNoResponse ==
  \A r \in Reqs : FetchHung(r) => ~res[r].finished

\* C14: a /languages request with a language fetch that has not completed has received
\* no 200 response; it has received no response at all as long as every sibling that
\* completed succeeded, and the failure response of the first failed sibling otherwise.
HungFetchHangs ==
  \A r \in Reqs :
    FetchHung(r) =>
      /\ res[r].sentStatus # 200
      /\ res[r].sentRecords = <<>>
      /\ res[r].finished <=> FailedFetches(r) # {}
      /\ FailedFetches(r) = {} => res[r] = NewResponse

\* one fetch has not completed, its sibling has succeeded, and nothing was sent
HungFetchHangsWitness ==
  \E r \in Reqs :
    /\ FetchHung(r)
    /\ Len(log[r]) = 2
    /\ ~Failed(log[r][2])
    /\ log[r][2].body.json
    /\ ~res[r].finished

\* C15: every upstream call is sent to the url its caller wrote into options
\* (repos/{owner}/r/languages for getRepoLanguages(r), users/{owner}/repos?sort=created
\* for getRepos), also when the url is read from options after the caller's
\* synchronous step has returned.
UrlIntegrity ==
  \A c \in 1..Len(calls) : calls[c].sent # "" => calls[c].sent = calls[c].url

\* C16: the response of a /repos, /languages/:repo or /languages request has its
\* status and headers set and its body ended at most once: once it is ended no
\* formatErrorResponse assigns its status again or writes a header to it.
WrittenOnce ==
  \A r \in Reqs :
    route[r] \in {"repos", "languagesRepo", "languages"} /\ res[r].finished =>
      /\ res[r].statusCode = res[r].sentStatus
      /\ uncaught # "ERR_HTTP_HEADERS_SENT"

\* a call of r completed with status 200 and a body that is not JSON
Malformed(r) == \E k \in 1..Len(log[r]) : ~Failed(log[r][k]) /\ ~log[r][k].body.json

\* the listing call of a /languages request and every language fetch it issued have
\* completed, each with a 200 and a JSON body or with a failure
AllCompleted(r) ==
  /\ route[r] = "languages"
  /\ Len(log[r]) >= 1
  /\ \A i \in 1..Len(fetches[r]) : ~fetches[r][i].inflight
  /\ ~Malformed(r)

\* the one response of such a request: 200 with the aggregated records when every call
\* succeeded, a failure response otherwise
Answered(r) ==
  /\ res[r].finished
  /\ (\A k \in 1..Len(log[r]) : ~Failed(log[r][k])) =>
       /\ res[r].sentStatus = 200
       /\ res[r].sentType = "application/json"
       /\ res[r].sentRecords = ToRecords(sumObjectsByKeys(ListingMaps(r)))
       /\ res[r].sentText = ""
  /\ (\E k \in 1..Len(log[r]) : Failed(log[r][k])) =>
       /\ res[r].sentStatus # 200
       /\ res[r].sentText # ""
       /\ res[r].sentRecords = <<>>

\* C17: when every call of a /languages request completes (with a 200 and a JSON body
\* or with a failure) the request eventually receives its response, unless the process
\* has exited before; and once all its calls have completed the response is there:
\* 200 with the aggregated records if every call succeeded, a failure response otherwise.
EventualResponse ==
  /\ [](\A r \in Reqs : AllCompleted(r) => Answered(r))
  /\ \A r \in Reqs :
       (route[r] = "languages") ~> (res[r].finished \/ Malformed(r) \/ uncaught # "")

\* every call has completed, one fetch with 404 and then its sibling with 200: the one
\* response is the 404 of the failure
EventualResponseWitness ==
  \E r \in Reqs :
    /\ AllCompleted(r)
    /\ Len(fetches[r]) = MaxRepos
    /\ Len(log[r]) = 1 + MaxRepos
    /\ log[r][2].statusCode = 404
    /\ \A k \in 3..Len(log[r]) : ~Failed(log[r][k])
    /\ res[r].finished
    /\ res[r].sentStatus = 404
    /\ uncaught = ""

\* C18: the totals answered to a /languages request are built from nothing but the
\* LanguageMaps fetched for that request: the languages are those of its own maps,
\* each once, with the sum of its own maps' values, whatever other /languages requests
\* were answered before or in between; and the maps it fetched are as they arrived.
NoLeakage ==
  \A r \in AggReqs :
    route[r] = "languages" /\ res[r].finished /\ res[r].sentStatus = 200 =>
      LET own == ListingMaps(r)
          sent == res[r].sentRecords
      IN /\ {sent[k].language : k \in 1..Len(sent)} = UNION {Keys(own[i]) : i \in 1..Len(own)}
         /\ \A j, k \in 1..Len(sent) : sent[j].language = sent[k].language => j = k
         /\ \A k \in 1..Len(sent) : sent[k].value = SumOf(own, sent[k].language, 1)
         /\ \A i \in 1..Len(fetches[r]) :
              fetches[r][i].body = JsonBody(LanguagesOf(fetches[r][i].repo))

\* two requests with different listings are both answered, each with its own totals
NoLeakageWitness ==
  \E r, q \in AggReqs :
    /\ r < q
    /\ FullSuccess(r) /\ FullSuccess(q)
    /\ Len(fetches[r]) = MaxRepos
    /\ Len(fetches[q]) = 1
    /\ res[q].sentRecords = ToRecords(MapA)
    /\ res[r].sentRecords # res[q].sentRecords

====
